---- MODULE Spec2Model ----
(***************************************************************************)
(* A model of log_steam.py: SteamDownloadMonitor.                          *)
(*                                                                         *)
(*   parse_log_file     the backward scan over the last lines of Steam's   *)
(*                      content_log.txt                                    *)
(*   display_info       one check: parse, resolve the game name, report    *)
(*   monitor            the loop of checks, its sleeps and its handlers    *)
(*                                                                         *)
(* A log line is modelled by what the scan's patterns see in it:           *)
(*   appid    the digits of re.search(r'AppID\s+(\d+)'), or None           *)
(*   rate     the token of r'Current download rate:\s+([\d.]+)\s+Mbps',    *)
(*            or None (the token is text: float() converts it, or raises)  *)
(*   changed  'App update changed' in line                                 *)
(*   kw       the phase keywords the line contains                         *)
(*   started  'update started' in line                                     *)
(*   size     the pair of r'download\s+(\d+)/(\d+)', or None               *)
(* Optional values are sequences: None is <<>>, a value v is <<v>>.        *)
(***************************************************************************)
EXTENDS Integers, Sequences, FiniteSets, TLC

VARIABLES
    log_file,          \* content_log.txt: [exists, readable, lines]
    result,            \* what the last parse_log_file call returned (or raised)
    lines,             \* the window that call scanned (local `lines`)
    pc,                \* where monitor() is: "tick", "sleep", "backoff", "summary", "done"
    how,               \* how the for loop was left: "running" (not yet), "exhausted",
                       \* "break", "propagated" (an exception left monitor())
    total_checks,      \* total_checks = duration_minutes
    interval_seconds,  \* interval_seconds
    check_number,      \* the loop variable of `for check_number in range(...)`
    remaining,         \* the loop variable of `for remaining in range(...)`
    current_appid,     \* self.current_appid
    game_name,         \* self.game_name
    report,            \* the lines logged since the current check began
    lookup_called,     \* the current check called get_game_name_from_manifest
    ticks,             \* display_info calls so far
    last_tick,         \* "none", "ok", "failed" (raised), "interrupted"
    slept,             \* the time.sleep calls completed since the last check
    summaries,         \* times the final "Мониторинг завершен" line was logged
    interrupted        \* where Ctrl-C arrived: "no", "tick", "sleep", "backoff"

\* ------------------------------------------------------------------ bounds
\* Longest log file of the parser specification.
MaxLen == 3
\* Largest duration_minutes (number of checks) and interval_seconds of monitor().
MaxChecks == 3
MaxInterval == 21

\* ------------------------------------------------------------------ values
None == <<>>
Some(v) == <<v>>

\* status strings of parse_log_file, by the keyword that selects them:
\*   "Unknown" 'неизвестно', "Downloading" 'загружается', "Paused" 'на паузе',
\*   "Verifying" 'проверка файлов', "Preallocating" 'подготовка места',
\*   "Staging" 'распаковка'
Phases == {"Downloading", "Paused", "Verifying", "Preallocating", "Staging"}

\* A log line, by the matches of the four patterns.
Line(appid, rate, changed, kw, started, size) ==
    [appid |-> appid, rate |-> rate, changed |-> changed, kw |-> kw,
     started |-> started, size |-> size]

Noise == Line(None, None, FALSE, {}, FALSE, None)
AppIDLine(a) == [Noise EXCEPT !.appid = Some(a)]
RateLine(tok) == [Noise EXCEPT !.rate = Some(tok)]
ChangedLine(kw) == [Noise EXCEPT !.changed = TRUE, !.kw = kw]
StartedLine(d, t) == [Noise EXCEPT !.started = TRUE, !.size = Some(<<d, t>>)]

\* The lines log files are made of: each pattern alone, the near misses of
\* each pattern, and the combined lines Steam writes
\* ("AppID 42 update started : download 1000/2000").
LogLines ==
    { Noise,
      AppIDLine("42"), AppIDLine("7"),
      RateLine("12.50"), RateLine("5"), RateLine("1.2.3"),
      ChangedLine({"Downloading"}), ChangedLine({"Paused"}),
      ChangedLine({"Verifying"}), ChangedLine({"Preallocating"}),
      ChangedLine({"Staging"}),
      ChangedLine({}),                                  \* "App update changed : Running"
      ChangedLine({"Downloading", "Staging"}),          \* two keywords in one line
      [Noise EXCEPT !.kw = {"Paused"}],                 \* keyword without the marker
      StartedLine(1000, 2000), StartedLine(0, 0), StartedLine(5, 0),
      [Noise EXCEPT !.started = TRUE],                  \* marker without the pair
      [Noise EXCEPT !.size = Some(<<1000, 2000>>)],     \* pair without the marker
      [StartedLine(1000, 2000) EXCEPT !.appid = Some("42")],
      [StartedLine(0, 2000) EXCEPT !.appid = Some("7")],
      [ChangedLine({"Downloading"}) EXCEPT !.appid = Some("42")],
      [ChangedLine({"Paused"}) EXCEPT !.appid = Some("7")] }

SeqsUpTo(S, n) == UNION { [1..k -> S] : k \in 0..n }

\* ------------------------------------------------------------- conversions
\* float(token) of a [\d.]+ token: the tokens with one well-formed number.
FloatRaises(tok) == tok \notin {"12.50", "5"}

\* float(token), in hundredths of a Mbps.
Float(tok) ==
    CASE tok = "12.50" -> 1250
      [] tok = "5" -> 500

\* ------------------------------------------------------- parse_log_file
WindowSize == 50

\* lines[-50:] when len(lines) > 50, else lines.
LastLines(ls) ==
    IF Len(ls) > WindowSize
    THEN SubSeq(ls, Len(ls) - WindowSize + 1, Len(ls))
    ELSE ls

\* return None, None, None (file missing, or the read failed)
Tuple3 == [kind |-> "tuple3"]

\* return appid, download_speed, status, progress, downloaded, total
\* (progress is Some(<<downloaded, total>>), or None for None, None, None)
Tuple6(appid, speed, status, progress) ==
    [kind |-> "tuple6", appid |-> appid, speed |-> speed, status |-> status,
     progress |-> progress]

\* an exception leaves parse_log_file
Raised == [kind |-> "raise"]

\* `if appid is None:` ... `appid = appid_match.group(1)`
AppidStep(appid, line) ==
    IF appid = None /\ line.appid # None THEN line.appid ELSE appid

\* float(speed_match.group(1)) raises ValueError
SpeedRaises(speed, line) ==
    speed = None /\ line.rate # None /\ FloatRaises(line.rate[1])

\* `if download_speed is None:` ... `download_speed = float(...)`
SpeedStep(speed, line) ==
    IF speed = None /\ line.rate # None THEN Some(Float(line.rate[1])) ELSE speed

\* The if/elif chain with a final `else: status = 'неизвестно'`.
StatusStep_ElseUnknown(status, line) ==
    IF ~line.changed THEN status
    ELSE IF "Downloading" \in line.kw THEN "Downloading"
    ELSE IF "Paused" \in line.kw THEN "Paused"
    ELSE IF "Verifying" \in line.kw THEN "Verifying"
    ELSE IF "Preallocating" \in line.kw THEN "Preallocating"
    ELSE IF "Staging" \in line.kw THEN "Staging"
    ELSE "Unknown"

\* the if/elif chain under `if 'App update changed' in line:`
StatusStep(status, line) ==
    IF ~line.changed THEN status
    ELSE IF "Downloading" \in line.kw THEN "Downloading"
    ELSE IF "Paused" \in line.kw THEN "Paused"
    ELSE IF "Verifying" \in line.kw THEN "Verifying"
    ELSE IF "Preallocating" \in line.kw THEN "Preallocating"
    ELSE IF "Staging" \in line.kw THEN "Staging"
    ELSE status

\* ProgressFound without `and appid`.
ProgressFound_NoAppidCheck(appid, line) ==
    /\ line.started
    /\ line.size # None
    /\ line.size[1][2] > 0

\* ProgressFound with `total >= 0`.
ProgressFound_NoTotalCheck(appid, line) ==
    /\ line.started
    /\ appid # None
    /\ line.size # None

\* `if 'update started' in line and appid:` ... `if size_match:` ... `if total > 0:`
\* (appid is a non-empty string of digits or None, so `and appid` is `is not None`)
ProgressFound(appid, line) ==
    /\ line.started
    /\ appid # None
    /\ line.size # None
    /\ line.size[1][2] > 0

\* `for line in reversed(lines):` from index i down to 1, and the final return.
RECURSIVE Scan(_, _, _, _, _)
Scan(ls, i, appid, speed, status) ==
    IF i = 0 THEN Tuple6(appid, speed, status, None)
    ELSE LET line == ls[i]
             appid1 == AppidStep(appid, line)
         IN  IF SpeedRaises(speed, line) THEN Raised
             ELSE LET speed1 == SpeedStep(speed, line)
                      status1 == StatusStep(status, line)
                  IN  IF ProgressFound(appid1, line)
                      THEN Tuple6(appid1, speed1, status1, line.size)
                      ELSE Scan(ls, i - 1, appid1, speed1, status1)

\* parse_log_file as a function of the file.
parse_log_file(file) ==
    IF ~file.exists THEN Tuple3
    ELSE IF ~file.readable THEN Tuple3
    ELSE Scan(LastLines(file.lines), Len(LastLines(file.lines)), None, None, "Unknown")

\* The window parse_log_file scans (empty when it returns before the scan).
ScannedLines(file) ==
    IF file.exists /\ file.readable THEN LastLines(file.lines) ELSE <<>>

\* ---------------------------------------------------------- display_info
\* The appmanifest_<appid>.acf file a lookup finds: missing, unreadable, or
\* readable with the name in the layout "name" "..." ("quoted"), in the layout
\* name "..." ("bare"), or in neither ("none").
Manifests ==
    { [exists |-> FALSE, readable |-> FALSE, layout |-> "none"],
      [exists |-> TRUE, readable |-> FALSE, layout |-> "none"],
      [exists |-> TRUE, readable |-> TRUE, layout |-> "quoted"],
      [exists |-> TRUE, readable |-> TRUE, layout |-> "bare"],
      [exists |-> TRUE, readable |-> TRUE, layout |-> "none"] }

\* The name a manifest holds, and the f"Игра (AppID: {appid})" stub.
ManifestName(appid) == <<"name", appid>>
Placeholder(appid) == <<"placeholder", appid>>

\* get_game_name_from_manifest(appid) with manifest file m.
get_game_name_from_manifest(appid, m) ==
    IF m.exists /\ m.readable /\ m.layout \in {"quoted", "bare"}
    THEN ManifestName(appid)
    ELSE Placeholder(appid)

\* `if appid != self.current_appid:` always taken.
NeedsLookup_Always(appid, current) == TRUE

\* `if appid != self.current_appid:` (both optional values here)
NeedsLookup(appid, current) == appid # current

\* `if speed is not None and status == 'загружается':` without the status test.
ShowsSpeed_NoStatusCheck(speed, status) == speed # None

\* `if speed is not None and status == 'загружается':`
ShowsSpeed(speed, status) == speed # None /\ status = "Downloading"

\* The three header lines of a check.
Header == <<"sep", "check", "sep">>

\* The lines display_info logs for the tuple res, by their label:
\* "game" Игра, "appid" AppID, "status" Статус, "speed" Скорость,
\* "progress" Прогресс, "loaded" Загружено, "state" Состояние,
\* "no_downloads" Нет активных загрузок.
ReportLines(res) ==
    Header \o
    ( IF res.appid # None
      THEN <<"game", "appid", "status">>
           \o (IF ShowsSpeed(res.speed, res.status) THEN <<"speed">> ELSE <<>>)
           \o (IF res.progress # None THEN <<"progress", "loaded">> ELSE <<>>)
           \o <<"state">>
      ELSE <<"no_downloads">> )

\* `appid, speed, status, progress, downloaded, total = self.parse_log_file()`
\* raises: parse_log_file raised, or returned three values for six names.
UnpackRaises(res) == res.kind \in {"raise", "tuple3"}

\* display_info with `self.current_appid = appid` outside `if appid:`, so a
\* check without an identifier forgets the last one.
display_info_ForgetsOnNone(res, m, cur, name) ==
    IF res.appid = None
    THEN [report |-> ReportLines(res), current_appid |-> None,
          game_name |-> None, lookup |-> FALSE]
    ELSE IF NeedsLookup(res.appid, cur)
    THEN [report |-> ReportLines(res), current_appid |-> res.appid,
          game_name |-> Some(get_game_name_from_manifest(res.appid[1], m)),
          lookup |-> TRUE]
    ELSE [report |-> ReportLines(res), current_appid |-> cur,
          game_name |-> name, lookup |-> FALSE]

\* display_info on the tuple res with manifest m: the lines logged, the
\* attributes after the call, and whether the lookup ran.
display_info(res, m, cur, name) ==
    IF res.appid # None /\ NeedsLookup(res.appid, cur)
    THEN [report |-> ReportLines(res), current_appid |-> res.appid,
          game_name |-> Some(get_game_name_from_manifest(res.appid[1], m)),
          lookup |-> TRUE]
    ELSE [report |-> ReportLines(res), current_appid |-> cur,
          game_name |-> name, lookup |-> FALSE]

\* --------------------------------------------------- parser specification
vars == <<log_file, result, lines, pc, how, total_checks, interval_seconds,
          check_number, remaining, current_appid, game_name, report,
          lookup_called, ticks, last_tick, slept, summaries, interrupted>>

loop_vars == <<pc, how, total_checks, interval_seconds, check_number, remaining,
               current_appid, game_name, report, lookup_called, ticks,
               last_tick, slept, summaries, interrupted>>

NotCalled == [kind |-> "none"]

LogFiles(n) ==
    { [exists |-> FALSE, readable |-> FALSE, lines |-> <<>>],
      [exists |-> TRUE, readable |-> FALSE, lines |-> <<>>] }
    \cup { [exists |-> TRUE, readable |-> TRUE, lines |-> ls] :
             ls \in SeqsUpTo(LogLines, n) }

\* __init__: no application known yet.
InitAttributes ==
    /\ current_appid = None
    /\ game_name = None

\* The state monitor(duration_minutes, interval_seconds) enters its loop in.
InitLoop(n, interval) ==
    /\ InitAttributes
    /\ total_checks = n
    /\ interval_seconds = interval
    /\ check_number = 1
    /\ pc = IF n >= 1 THEN "tick" ELSE "summary"
    /\ how = IF n >= 1 THEN "running" ELSE "exhausted"
    /\ remaining = 0
    /\ report = <<>>
    /\ lookup_called = FALSE
    /\ ticks = 0
    /\ last_tick = "none"
    /\ slept = <<>>
    /\ summaries = 0
    /\ interrupted = "no"

\* The parser alone: a log file, and one parse_log_file call on it.
InitParse ==
    /\ log_file \in LogFiles(MaxLen)
    /\ result = NotCalled
    /\ lines = <<>>
    /\ InitLoop(0, 1)

ParseLogFile ==
    /\ result = NotCalled
    /\ result' = parse_log_file(log_file)
    /\ lines' = ScannedLines(log_file)
    /\ UNCHANGED log_file
    /\ UNCHANGED loop_vars

\* A line none of the four patterns matches.
Unmatched(l) ==
    /\ l.appid = None
    /\ l.rate = None
    /\ ~(l.changed /\ l.kw \cap Phases # {})
    /\ ~(l.started /\ l.size # None)

\* ls with line l put after its first k lines.
InsertAt(ls, k, l) == SubSeq(ls, 1, k) \o <<l>> \o SubSeq(ls, k + 1, Len(ls))

\* parse_log_file called again, on the file with one unmatched line more
\* somewhere in it.
ParseWithUnmatchedLine ==
    /\ result # NotCalled
    /\ log_file.exists /\ log_file.readable
    /\ Len(log_file.lines) < MaxLen
    /\ \E l \in { x \in LogLines : Unmatched(x) }, k \in 0..Len(log_file.lines) :
         LET f == [log_file EXCEPT !.lines = InsertAt(log_file.lines, k, l)]
         IN  /\ log_file' = f
             /\ result' = parse_log_file(f)
             /\ lines' = ScannedLines(f)
    /\ UNCHANGED loop_vars

NextParse ==
    \/ ParseLogFile
    \/ ParseWithUnmatchedLine

SpecParse == InitParse /\ [][NextParse]_vars

\* ---------------------------------------------------------------- monitor
\* The log files a check may find: missing, unreadable, empty, and the windows
\* of a download of 42 or 7 in its phases (most recent line last).
MonitorFiles ==
    { [exists |-> FALSE, readable |-> FALSE, lines |-> <<>>],
      [exists |-> TRUE, readable |-> FALSE, lines |-> <<>>] }
    \cup { [exists |-> TRUE, readable |-> TRUE, lines |-> ls] : ls \in
        { <<>>,
          <<Noise>>,
          <<[ChangedLine({"Downloading"}) EXCEPT !.appid = Some("42")], RateLine("12.50")>>,
          <<[ChangedLine({"Paused"}) EXCEPT !.appid = Some("7")], RateLine("5")>>,
          <<AppIDLine("42"), ChangedLine({"Verifying"})>>,
          <<[StartedLine(1000, 2000) EXCEPT !.appid = Some("42")],
            ChangedLine({"Downloading"}), RateLine("5")>>,
          <<[StartedLine(1000, 2000) EXCEPT !.appid = Some("7")],
            ChangedLine({"Staging"}), RateLine("5")>>,
          <<AppIDLine("7"), RateLine("1.2.3")>> } }

\* What a check reads: the file, the window parse_log_file scans, and what the
\* call returns.
MonitorReads ==
    { [file |-> f, lines |-> ScannedLines(f), res |-> parse_log_file(f)] :
        f \in MonitorFiles }

\* `for check_number in range(1, total_checks + 1)` with one value too many.
RangeHasNext_OffByOne(cn, total) == cn <= total

\* `for check_number in range(1, total_checks + 1)`: a value follows cn.
RangeHasNext(cn, total) == cn < total

\* `if check_number < total_checks:`
SleepsAfterCheck(cn, total) == cn < total

\* time.sleep(10) whatever remains.
SegmentLength_AlwaysTen(r) == 10

\* `10 if remaining > 10 else remaining`
SegmentLength(r) == IF r > 10 THEN 10 ELSE r

\* `for remaining in range(interval_seconds, 0, -10)`: a value follows r.
SleepHasNext(r) == r - 10 > 0

\* The for statement takes its next value, or the loop ends.
NextIteration ==
    IF RangeHasNext(check_number, total_checks)
    THEN /\ check_number' = check_number + 1
         /\ pc' = "tick"
         /\ UNCHANGED how
    ELSE /\ pc' = "summary"
         /\ how' = "exhausted"
         /\ UNCHANGED check_number

\* The for statement takes its next value where `break` belongs.
ExceptKeyboardInterrupt_NoBreak(partial) ==
    /\ report' = partial \o <<"interrupted">>
    /\ NextIteration

\* `except KeyboardInterrupt:` logs "Мониторинг прерван пользователем", breaks.
ExceptKeyboardInterrupt(partial) ==
    /\ report' = partial \o <<"interrupted">>
    /\ pc' = "summary"
    /\ how' = "break"
    /\ UNCHANGED check_number

\* `except Exception` that logs and leaves the loop.
ExceptException_Abort ==
    /\ report' = <<"check_error">>
    /\ pc' = "summary"
    /\ how' = "break"

\* `except Exception as e:` logs "Ошибка при проверке", then calls
\* time.sleep(interval_seconds).
ExceptException ==
    /\ report' = <<"check_error">>
    /\ pc' = "backoff"
    /\ UNCHANGED how

\* The manifests a check of the tuple res can read: any, when it looks the
\* name up; otherwise none is opened.
ManifestsRead(res, cur) ==
    IF ~UnpackRaises(res) /\ res.appid # None /\ NeedsLookup(res.appid, cur)
    THEN Manifests
    ELSE { [exists |-> FALSE, readable |-> FALSE, layout |-> "none"] }

\* One iteration whose display_info returns: the report, then the sleep
\* between checks begins, or the loop goes on.
Check ==
    /\ pc = "tick"
    /\ \E r \in MonitorReads :
         /\ ~UnpackRaises(r.res)
         /\ \E m \in ManifestsRead(r.res, current_appid) :
                LET e == display_info(r.res, m, current_appid, game_name)
                IN  /\ log_file' = r.file
                    /\ result' = r.res
                    /\ lines' = r.lines
                    /\ report' = e.report
                    /\ current_appid' = e.current_appid
                    /\ game_name' = e.game_name
                    /\ lookup_called' = e.lookup
    /\ ticks' = ticks + 1
    /\ last_tick' = "ok"
    /\ slept' = <<>>
    /\ IF SleepsAfterCheck(check_number, total_checks) /\ interval_seconds > 0
       THEN /\ pc' = "sleep"
            /\ remaining' = interval_seconds
            /\ UNCHANGED <<how, check_number>>
       ELSE /\ NextIteration
            /\ UNCHANGED remaining
    /\ UNCHANGED <<total_checks, interval_seconds, summaries, interrupted>>

\* One iteration whose display_info raises: nothing is reported, and the
\* handler of Exception runs.
CheckRaises ==
    /\ pc = "tick"
    /\ \E r \in MonitorReads :
         /\ UnpackRaises(r.res)
         /\ log_file' = r.file
         /\ result' = r.res
         /\ lines' = r.lines
    /\ ExceptException
    /\ lookup_called' = FALSE
    /\ ticks' = ticks + 1
    /\ last_tick' = "failed"
    /\ slept' = <<>>
    /\ UNCHANGED <<total_checks, interval_seconds, check_number, remaining,
                   current_appid, game_name, summaries, interrupted>>

\* One time.sleep of the sleep between checks returns.
SleepSegment ==
    /\ pc = "sleep"
    /\ slept' = Append(slept, SegmentLength(remaining))
    /\ IF SleepHasNext(remaining)
       THEN /\ remaining' = remaining - 10
            /\ UNCHANGED <<pc, how, check_number>>
       ELSE /\ NextIteration
            /\ UNCHANGED remaining
    /\ UNCHANGED <<log_file, result, lines, total_checks, interval_seconds,
                   current_appid, game_name, report, lookup_called, ticks,
                   last_tick, summaries, interrupted>>

\* time.sleep(interval_seconds) of the Exception handler returns.
BackoffDone ==
    /\ pc = "backoff"
    /\ slept' = <<interval_seconds>>
    /\ NextIteration
    /\ UNCHANGED <<log_file, result, lines, total_checks, interval_seconds,
                   remaining, current_appid, game_name, report, lookup_called,
                   ticks, last_tick, summaries, interrupted>>

\* Ctrl-C while display_info runs: KeyboardInterrupt is raised after k of its
\* lines were logged (k = all of them: after it returned, before the sleep).
\* The name is resolved before the fourth line; at k = 3 it may or may not be.
InterruptCheck ==
    /\ pc = "tick"
    /\ \E r \in MonitorReads :
         \E m \in ManifestsRead(r.res, current_appid) :
             LET full == IF UnpackRaises(r.res)
                         THEN [report |-> <<>>, current_appid |-> current_appid,
                               game_name |-> game_name, lookup |-> FALSE]
                         ELSE display_info(r.res, m, current_appid, game_name)
             IN  \E k \in 0..Len(full.report) :
                 \E done \in IF k = Len(Header) /\ full.lookup THEN BOOLEAN ELSE {TRUE} :
                   LET resolved == k > Len(Header) \/ (k = Len(Header) /\ done)
                   IN  /\ log_file' = r.file
                       /\ result' = r.res
                       /\ lines' = r.lines
                       /\ ExceptKeyboardInterrupt(SubSeq(full.report, 1, k))
                       /\ current_appid' = IF resolved THEN full.current_appid ELSE current_appid
                       /\ game_name' = IF resolved THEN full.game_name ELSE game_name
                       /\ lookup_called' = (resolved /\ full.lookup)
    /\ ticks' = ticks + 1
    /\ last_tick' = "interrupted"
    /\ slept' = <<>>
    /\ interrupted' = "tick"
    /\ UNCHANGED <<total_checks, interval_seconds, remaining, summaries>>

\* Ctrl-C during a time.sleep of the sleep between checks: the call raises
\* KeyboardInterrupt inside the try block.
InterruptSleep ==
    /\ pc = "sleep"
    /\ ExceptKeyboardInterrupt(report)
    /\ interrupted' = "sleep"
    /\ UNCHANGED <<log_file, result, lines, total_checks, interval_seconds,
                   remaining, current_appid, game_name, lookup_called, ticks,
                   last_tick, slept, summaries>>

\* Ctrl-C during time.sleep(interval_seconds) of the Exception handler: the
\* KeyboardInterrupt is raised inside an except clause, where no clause of the
\* same try statement catches it, and leaves monitor().
InterruptBackoff ==
    /\ pc = "backoff"
    /\ pc' = "done"
    /\ how' = "propagated"
    /\ interrupted' = "backoff"
    /\ UNCHANGED <<log_file, result, lines, total_checks, interval_seconds,
                   check_number, remaining, current_appid, game_name, report,
                   lookup_called, ticks, last_tick, slept, summaries>>

\* After the loop: the separator and "Мониторинг завершен".
Summary ==
    /\ pc = "summary"
    /\ summaries' = summaries + 1
    /\ pc' = "done"
    /\ UNCHANGED <<log_file, result, lines, how, total_checks, interval_seconds,
                   check_number, remaining, current_appid, game_name, report,
                   lookup_called, ticks, last_tick, slept, interrupted>>

\* Steam has written no log yet when monitor() is entered.
Init ==
    /\ log_file = [exists |-> FALSE, readable |-> FALSE, lines |-> <<>>]
    /\ result = NotCalled
    /\ lines = <<>>
    /\ \E n \in 0..MaxChecks, interval \in 1..MaxInterval : InitLoop(n, interval)

Next ==
    \/ Check
    \/ CheckRaises
    \/ SleepSegment
    \/ BackoffDone
    \/ InterruptCheck
    \/ InterruptSleep
    \/ InterruptBackoff
    \/ Summary

Spec == Init /\ [][Next]_vars

\* Every call returns and every sleep ends: a step is taken while one can be.
FairSpec == Spec /\ WF_vars(Next)

\* ------------------------------------------------------ reading a window
\* What the claims call the lines of a window.
IsIdLine(l) == l.appid # None
IsRateLine(l) == l.rate # None /\ ~FloatRaises(l.rate[1])
IsMalformedRateLine(l) == l.rate # None /\ FloatRaises(l.rate[1])
IsPhaseLine(l) == l.changed /\ l.kw \cap Phases # {}
IsSizeLine(l) == l.started /\ l.size # None

\* The positions of the lines of ls that are T lines, and the most recent one.
Positions(ls, T(_)) == { i \in 1..Len(ls) : T(ls[i]) }
MostRecent(ls, T(_)) ==
    CHOOSE i \in Positions(ls, T) : \A j \in Positions(ls, T) : j <= i

Returned == result.kind \in {"tuple3", "tuple6"}
ResultAppid == IF result.kind = "tuple6" THEN result.appid ELSE None
ResultSpeed == IF result.kind = "tuple6" THEN result.speed ELSE None
ResultStatus == IF result.kind = "tuple6" THEN result.status ELSE "Unknown"
ResultProgress == IF result.kind = "tuple6" THEN result.progress ELSE None

\* ------------------------------------------------------------------ claims
\* C1: whenever parse_log_file returns from a window with two or more
\* phase-change lines, the returned status is the phase of the phase-change
\* line closest to the end of the window.
C1_StatusIsMostRecentPhase ==
    (result.kind = "tuple6" /\ Cardinality(Positions(lines, IsPhaseLine)) >= 2)
        => result.status = StatusStep("Unknown", lines[MostRecent(lines, IsPhaseLine)])

\* C2: whenever the window holds a rate line (and no malformed rate token), the
\* call returns a rate, and it is the value of the most recent rate line,
\* wherever the size-pair lines of the window are.
C2_RateIsMostRecentRate ==
    ( /\ result.kind # "none"
      /\ Positions(lines, IsRateLine) # {}
      /\ Positions(lines, IsMalformedRateLine) = {} )
        => /\ result.kind = "tuple6"
           /\ result.speed = Some(Float(lines[MostRecent(lines, IsRateLine)].rate[1]))

\* C3: a returned progress comes with a returned identifier, and a window with
\* a size-pair line but no identifier line returns no progress.
C3_ProgressRequiresIdentifier ==
    Returned =>
        /\ ResultProgress # None => ResultAppid # None
        /\ ( /\ Positions(lines, IsSizeLine) # {}
             /\ Positions(lines, IsIdLine) = {} ) => ResultProgress = None

\* C3 witness: a window with a size-pair line of positive total and no
\* identifier line has been parsed.
C3_Witness ==
    /\ result.kind = "tuple6"
    /\ \E i \in Positions(lines, IsSizeLine) : lines[i].size[1][2] > 0
    /\ Positions(lines, IsIdLine) = {}
    /\ result.progress = None

\* C4: a returned progress has totalBytes > 0 and is the pair of a size-pair
\* line of the window, so a size-pair line with total 0 never populates it.
C4_ZeroTotalGuard ==
    (Returned /\ ResultProgress # None) =>
        /\ ResultProgress[1][2] > 0
        /\ \E i \in Positions(lines, IsSizeLine) : lines[i].size = ResultProgress

\* C4 witness: a size-pair line with total 0 and a nonzero downloaded value,
\* at or before an identifier line in scan order, has been parsed.
C4_Witness ==
    /\ result.kind = "tuple6"
    /\ \E i \in Positions(lines, IsSizeLine) :
         /\ lines[i].size[1][2] = 0
         /\ lines[i].size[1][1] > 0
         /\ \E j \in Positions(lines, IsIdLine) : j >= i
    /\ result.appid # None
    /\ result.progress = None

\* The labels of the lines reported since the current check began.
Reported == { report[i] : i \in 1..Len(report) }

\* C5: the report of a check holds the rate line only if the status parsed in
\* that check is Downloading (and a rate was parsed).
C5_RateSuppression ==
    "speed" \in Reported =>
        /\ result.kind = "tuple6"
        /\ result.status = "Downloading"
        /\ result.speed # None

\* C5 witness: a check has reported a download that is not Downloading and has
\* a parsed rate, in full, without the rate line.
C5_Witness ==
    /\ last_tick = "ok"
    /\ result.kind = "tuple6"
    /\ result.appid # None
    /\ result.speed # None
    /\ result.status \in {"Paused", "Staging"}
    /\ "state" \in Reported
    /\ "speed" \notin Reported

\* C6: a check calls get_game_name_from_manifest only when the identifier it
\* parsed differs from self.current_appid as the check found it; and a check
\* that follows a check with the same parsed identifier does not call it.
C6_NameCacheReuse ==
    [][ ticks' = ticks + 1 =>
          /\ lookup_called' =>
                /\ result'.kind = "tuple6"
                /\ result'.appid # None
                /\ result'.appid # current_appid
          /\ ( /\ result.kind = "tuple6"
               /\ result'.kind = "tuple6"
               /\ result.appid # None
               /\ result'.appid = result.appid ) => ~lookup_called' ]_vars

\* C6 witness: a second or later check has reported the identifier of the
\* check before it without a lookup.
C6_Witness ==
    /\ ticks >= 2
    /\ last_tick = "ok"
    /\ result.kind = "tuple6"
    /\ result.appid # None
    /\ result.appid = current_appid
    /\ ~lookup_called
    /\ "game" \in Reported

\* C7: from the step in which Ctrl-C arrives during a sleep between two checks
\* (a segment of the segmented sleep, or the wait after a check that raised),
\* the loop has been left: no further time.sleep call completes and no
\* further check starts; out of the segmented sleep it is left by `break`.
C7_CancellationDuringSleep ==
    [][ interrupted' \in {"sleep", "backoff"} =>
          /\ pc' \in {"summary", "done"}
          /\ how' # "running"
          /\ interrupted' = "sleep" => how' = "break"
          /\ slept' = slept
          /\ ticks' = ticks ]_vars

\* C7 witness: Ctrl-C arrived in a segment that is not the last of its sleep,
\* after a first segment had completed, and monitor() has returned.
C7_Witness ==
    /\ interrupted = "sleep"
    /\ pc = "done"
    /\ Len(slept) >= 1
    /\ SleepHasNext(remaining)
    /\ ticks < total_checks

\* C8: wherever Ctrl-C arrives while the loop runs, the loop is left by
\* `break`, the final summary line follows, and the interrupt does not leave
\* monitor().
C8_InterruptAlwaysCancels ==
    interrupted # "no" =>
        /\ how = "break"
        /\ pc \in {"summary", "done"}
        /\ pc = "done" => summaries = 1

\* C9: a check that raises is handled inside the loop: the error line is
\* logged and the full-interval wait begins; when that wait ends it was one
\* time.sleep(interval_seconds), and the loop goes on with the next check (or
\* ends by exhaustion after the last one); no error ever leaves monitor().
C9_FailureContainment ==
    [][ /\ (ticks' = ticks + 1 /\ UnpackRaises(result') /\ interrupted' = "no") =>
              /\ pc' = "backoff"
              /\ how' = "running"
              /\ report' = <<"check_error">>
        /\ (pc = "backoff" /\ interrupted' = "no") =>
              /\ slept' = <<interval_seconds>>
              /\ IF check_number < total_checks
                 THEN pc' = "tick" /\ check_number' = check_number + 1 /\ how' = "running"
                 ELSE pc' = "summary" /\ how' = "exhausted"
        /\ how' = "propagated" => interrupted' # "no" ]_vars

\* C9 witness: after a check that raised and its full-interval wait, the loop
\* is about to run the next check.
C9_Witness ==
    /\ last_tick = "failed"
    /\ pc = "tick"
    /\ check_number >= 2
    /\ slept = <<interval_seconds>>
    /\ interrupted = "no"

\* C10: without Ctrl-C, monitor() ends by exhausting the loop after exactly
\* total_checks checks, with the final summary line logged once; once the loop
\* is left no check starts and the line is not logged again; and monitor()
\* does end.
C10_Completion ==
    /\ [](( pc = "done" /\ interrupted = "no" ) =>
            /\ how = "exhausted"
            /\ ticks = total_checks
            /\ summaries = 1)
    /\ [][ how # "running" => (ticks' = ticks /\ summaries' <= 1) ]_vars
    /\ <>(pc = "done")

\* C10 witness: a run of two or more checks whose last check raised has
\* completed.
C10_Witness ==
    /\ pc = "done"
    /\ interrupted = "no"
    /\ how = "exhausted"
    /\ total_checks >= 2
    /\ ticks = total_checks
    /\ last_tick = "failed"
    /\ summaries = 1

\* C11: a check that finds the log file missing or unreadable raises nothing:
\* it ends as a check that returned, with the "no active downloads" report.
C11_AbsentFileFailsSoftly ==
    ( /\ last_tick \in {"ok", "failed"}
      /\ ~(log_file.exists /\ log_file.readable) )
        => /\ last_tick = "ok"
           /\ report = Header \o <<"no_downloads">>

\* C12: a window with a malformed rate token does not make parse_log_file
\* fail: the call returns its six values.
C12_MalformedRateSkipped ==
    ( /\ result.kind # "none"
      /\ Positions(lines, IsMalformedRateLine) # {} )
        => result.kind = "tuple6"

\* C13: the report of a check that Ctrl-C cut (the lines before the handler's
\* own line) is empty or is every line the parsed tuple calls for.
C13_NoIncompleteReport ==
    last_tick = "interrupted" =>
        LET shown == SubSeq(report, 1, Len(report) - 1)
        IN  \/ shown = <<>>
            \/ result.kind = "tuple6" /\ shown = ReportLines(result)

\* C14: the name kept with the last-known identifier is never the placeholder
\* of a failed lookup.
C14_PlaceholderNotCached ==
    current_appid # None => game_name # Some(Placeholder(current_appid[1]))

\* The identifier the claims expect of window ls: the token of its most recent
\* identifier line.
ExpectedAppid(ls) ==
    IF Positions(ls, IsIdLine) = {} THEN None
    ELSE ls[MostRecent(ls, IsIdLine)].appid

\* The size-pair lines of ls with total > 0 at the position of the most recent
\* identifier line or older, and the progress the claims expect: the pair of
\* the most recent of them.
UsableSizePositions(ls) ==
    { i \in Positions(ls, IsSizeLine) :
        /\ ls[i].size[1][2] > 0
        /\ Positions(ls, IsIdLine) # {}
        /\ i <= MostRecent(ls, IsIdLine) }
ExpectedProgress(ls) ==
    IF UsableSizePositions(ls) = {} THEN None
    ELSE ls[CHOOSE i \in UsableSizePositions(ls) :
               \A j \in UsableSizePositions(ls) : j <= i].size

\* C15: for every window with an identifier line, whatever its other lines,
\* parse_log_file returns, and returns the token of the most recent
\* identifier line as itemId.
C15_ItemIdIsMostRecent ==
    ( /\ result.kind # "none"
      /\ Positions(lines, IsIdLine) # {} )
        => /\ result.kind = "tuple6"
           /\ result.appid = ExpectedAppid(lines)

\* Beside C15: whenever the call returns its six values, itemId is the token
\* of the most recent identifier line (or None without one).
ItemIdWhenReturned ==
    result.kind = "tuple6" => result.appid = ExpectedAppid(lines)

\* C16: for every window with a size-pair line of total > 0 at the position of
\* the most recent identifier line or older, parse_log_file returns, and
\* returns as progress the pair of the most recent such line.
C16_ProgressIsMostRecentUsable ==
    ( /\ result.kind # "none"
      /\ UsableSizePositions(lines) # {} )
        => /\ result.kind = "tuple6"
           /\ result.progress = ExpectedProgress(lines)

\* Beside C16: whenever the call returns its six values, progress is that pair.
ProgressWhenReturned ==
    result.kind = "tuple6" => result.progress = ExpectedProgress(lines)

RECURSIVE Sum(_)
Sum(q) == IF q = <<>> THEN 0 ELSE q[1] + Sum(Tail(q))

\* C17: the time.sleep calls after a check that returned are each of 1 to 10
\* seconds; while the sleep goes on they and what remains add up to
\* interval_seconds, and when the next check is due they add up to it exactly.
C17_SleepSegmentation ==
    last_tick = "ok" =>
        /\ \A i \in 1..Len(slept) : slept[i] \in 1..10
        /\ pc = "sleep" => Sum(slept) + remaining = interval_seconds
        /\ (pc = "tick" /\ interrupted = "no") => Sum(slept) = interval_seconds

\* C17 witness: a sleep of three segments, the last one shorter than 10, has
\* ended and the next check is due.
C17_Witness ==
    /\ last_tick = "ok"
    /\ pc = "tick"
    /\ Len(slept) = 3
    /\ slept[3] < 10
    /\ Sum(slept) = interval_seconds

\* C18: a window of unmatched lines only (the empty window too) returns
\* itemId None, status Unknown, rate None, progress None; and the call on a
\* window with one unmatched line more returns what the call before returned.
C18_UnmatchedLinesInert ==
    /\ [](( /\ result.kind # "none"
            /\ log_file.exists /\ log_file.readable
            /\ \A i \in 1..Len(lines) : Unmatched(lines[i]) )
          => result = Tuple6(None, None, "Unknown", None))
    /\ [][ (result.kind # "none" /\ lines' # lines) => result' = result ]_vars

\* C18 witness: a window with an unmatched 'App update changed' line older
\* than a phase-change line and an identifier line has been parsed to that
\* phase and identifier.
C18_Witness ==
    /\ result.kind = "tuple6"
    /\ \E i, j, k \in 1..Len(lines) :
         /\ i < j
         /\ lines[i].changed /\ Unmatched(lines[i])
         /\ IsPhaseLine(lines[j])
         /\ IsIdLine(lines[k])
    /\ result.status # "Unknown"
    /\ result.appid # None

\* C19: self.current_appid, once set, is never None again; it and
\* self.game_name change only in a check that parsed an identifier different
\* from self.current_appid.
C19_LastKnownPersists ==
    [][ /\ current_appid # None => current_appid' # None
        /\ (current_appid' # current_appid \/ game_name' # game_name) =>
              /\ ticks' = ticks + 1
              /\ result'.kind = "tuple6"
              /\ result'.appid # None
              /\ result'.appid # current_appid ]_vars

\* C19 witness: a check that parsed no identifier has returned, and the
\* identifier and name of an earlier check are still kept.
C19_Witness ==
    /\ last_tick = "ok"
    /\ ticks >= 2
    /\ result.kind = "tuple6"
    /\ result.appid = None
    /\ current_appid # None
    /\ game_name # None

\* C20: when the loop ends by exhaustion, no time.sleep call has completed
\* since the final check, whether that check returned or raised.
C20_NoSleepAfterFinalCheck ==
    how = "exhausted" => slept = <<>>

====
